---- MODULE Spec2Model ----
\* Non-blocking I2C transaction manager (I2CManager_NonBlocking.h):
\* a request queue shared between foreground code and the TWI interrupt
\* handler, with a timeout check driven from the foreground loop.
EXTENDS Integers, Sequences, FiniteSets, TLC

\* ------------------------------------------------------------------ bounds
NumBlocks == 2      \* request blocks (I2CRB objects) owned by callers
MaxSubmits == 2     \* calls of write/write_P/read in one behaviour
MaxTicks == 2       \* clock ticks in one behaviour
TimeoutMicros == 1  \* the non-zero timeout value tried

\* ------------------------------------------------------------------ constants
NULL == 0
Half == 65536               \* an unsigned long is two 16-bit halves <<hi, lo>>
Blocks == 1..NumBlocks

I2C_STATUS_OK == "OK"
I2C_STATUS_TIMEOUT == "TIMEOUT"
I2C_STATUS_PENDING == "PENDING"
I2C_STATE_ACTIVE == I2C_STATUS_PENDING  \* line 185 tests the state register against PENDING
I2C_STATE_FREE == "FREE"
\* completion codes the adapter reports for a bus error
BusErrors == {"NAK_ADDR", "NAK_DATA", "ARB_LOST"}
Terminal == {I2C_STATUS_OK, I2C_STATUS_TIMEOUT} \cup BusErrors

OPERATION_SEND == "SEND"
OPERATION_SEND_P == "SEND_P"
OPERATION_REQUEST == "REQUEST"

VARIABLES
  \* request blocks (I2CRB fields)
  rbStatus, rbNext, rbNBytes, rbOperation, rbWriteLen, rbReadLen,
  \* I2CManagerClass static fields
  queueHead, queueTail, currentRequest, status, txCount, rxCount,
  operation, bytesToSend, bytesToReceive, startTime, timeout,
  \* environment: micros() clock and the bus adapter
  now, ticks, hw,
  \* foreground position: pc, the block being submitted, the pending call,
  \* where checkForTimeout returns to, and its local currentMicros; the value
  \* returned by the last call of write/write_P/read that has returned
  pc, fgReq, fgOp, fgRet, currentMicros, retval,
  \* interrupt handler position and its local t
  isrpc, isrT,
  \* history: enqueue order, terminal stamps, sendStart calls, the adapter
  \* primitives called by the last step of the program
  enqLog, doneLog, startLog, calls

rbVars == <<rbStatus, rbNext, rbNBytes, rbOperation, rbWriteLen, rbReadLen>>
qVars == <<queueHead, queueTail>>
txVars == <<currentRequest, status, txCount, rxCount, operation, bytesToSend,
            bytesToReceive, startTime, hw, startLog>>
fgVars == <<pc, fgReq, fgOp, fgRet, currentMicros, retval>>
isrVars == <<isrpc, isrT>>
clockVars == <<now, ticks>>
vars == <<rbStatus, rbNext, rbNBytes, rbOperation, rbWriteLen, rbReadLen,
          queueHead, queueTail, currentRequest, status, txCount, rxCount,
          operation, bytesToSend, bytesToReceive, startTime, timeout,
          now, ticks, hw, pc, fgReq, fgOp, fgRet, currentMicros, retval,
          isrpc, isrT, enqLog, doneLog, startLog, calls>>

\* unsigned long arithmetic (32 bits, modulo 2^32) on <<hi, lo>> pairs
U32(n) == <<0, n>>
UInc(a) == IF a[2] + 1 = Half THEN <<(a[1] + 1) % Half, 0>> ELSE <<a[1], a[2] + 1>>
USub(a, b) ==
  LET lo == a[2] - b[2]
      borrow == IF lo < 0 THEN 1 ELSE 0
  IN <<(a[1] - b[1] - borrow) % Half, lo % Half>>
UGt(a, b) == a[1] > b[1] \/ (a[1] = b[1] /\ a[2] > b[2])
\* the clock value a behaviour starts from: just before wraparound
ClockStart == <<Half - 1, Half - 2>>
\* the value micros() returns after k ticks, and the number of ticks after
\* which it returned t
RECURSIVE Clock(_)
Clock(k) == IF k = 0 THEN ClockStart ELSE UInc(Clock(k - 1))
TickOf(t) == CHOOSE k \in 0..MaxTicks : Clock(k) = t

Init ==
  /\ rbStatus = [b \in Blocks |-> I2C_STATUS_OK]
  /\ rbNext = [b \in Blocks |-> NULL]
  /\ rbNBytes = [b \in Blocks |-> 0]
  /\ rbOperation = [b \in Blocks |-> OPERATION_SEND]
  /\ rbWriteLen = [b \in Blocks |-> 0]
  /\ rbReadLen = [b \in Blocks |-> 0]
  /\ queueHead = NULL /\ queueTail = NULL
  /\ currentRequest = NULL
  /\ status = I2C_STATE_FREE
  /\ txCount = 0 /\ rxCount = 0
  /\ operation = OPERATION_SEND
  /\ bytesToSend = 0 /\ bytesToReceive = 0
  /\ startTime = U32(0)
  /\ timeout \in {U32(0), U32(TimeoutMicros)}
  /\ now = ClockStart
  /\ ticks = 0
  /\ hw = "idle"
  /\ pc = "idle" /\ fgReq = NULL /\ fgOp = "none" /\ fgRet = "idle"
  /\ currentMicros = U32(0)
  /\ retval = "none"
  /\ isrpc = "none" /\ isrT = NULL
  /\ enqLog = <<>> /\ doneLog = <<>> /\ startLog = <<>>
  /\ calls = <<>>

\* the blocks on the queue, from queueHead along the nextRequest links
\* (at most NumBlocks + 1 links are followed)
RECURSIVE Walk(_, _)
Walk(b, n) ==
  IF b = NULL \/ n = 0 THEN <<>> ELSE <<b>> \o Walk(rbNext[b], n - 1)
QueueSeq == Walk(queueHead, NumBlocks + 1)
InQueue(b) == \E i \in 1..Len(QueueSeq) : QueueSeq[i] = b

\* ------------------------------------------------------------------ adapter
\* I2C_sendStart(): puts the transaction on the bus. The peripheral either
\* answers (interrupts will follow) or holds the bus forever (wedged).
I2C_sendStart ==
  /\ hw' \in {"busy", "stuck"}

\* The bus error the controller can report in the current phase: no
\* acknowledge of the address before any byte has moved, no acknowledge of a
\* data byte sent, arbitration lost once bytes are being received.
PhaseError ==
  IF txCount = 0 /\ rxCount = 0 THEN "NAK_ADDR"
  ELSE IF rxCount > 0 THEN "ARB_LOST" ELSE "NAK_DATA"

\* I2C_handleInterrupt(): one phase of the transaction on the bus. It moves
\* the byte counters, or reports completion / a bus error in the state register.
I2C_handleInterrupt ==
  \/ /\ txCount < bytesToSend
     /\ txCount' = txCount + 1
     /\ UNCHANGED <<rxCount, status, hw>>
  \/ /\ txCount = bytesToSend /\ rxCount < bytesToReceive
     /\ rxCount' = rxCount + 1
     /\ UNCHANGED <<txCount, status, hw>>
  \/ /\ txCount = bytesToSend /\ rxCount = bytesToReceive
     /\ status' = I2C_STATUS_OK
     /\ hw' = "idle"
     /\ UNCHANGED <<txCount, rxCount>>
  \/ /\ status' = PhaseError
     /\ hw' = "idle"
     /\ UNCHANGED <<txCount, rxCount>>

\* I2C_close(); I2C_init(): the controller is disabled, any interrupt it had
\* raised is dropped, and it is brought back to idle.
I2C_closeInit ==
  /\ hw' = "idle"
  /\ calls' = <<"close", "init">>

\* ------------------------------------------------------------------ manager
\* who is calling startTransaction(): the interrupt handler (line 202),
\* checkForTimeout (line 161) or queueRequest (line 95)
Starter ==
  IF isrpc = "start" THEN "isr"
  ELSE IF pc = "cft_start" THEN "poll" ELSE "enqueue"

\* variant: the state register is not tested
startTransaction_NoStateCheck ==
  IF queueHead # NULL
  THEN /\ status' = I2C_STATE_ACTIVE
       /\ rxCount' = 0 /\ txCount' = 0
       /\ currentRequest' = queueHead
       /\ operation' = rbOperation[queueHead]
       /\ bytesToSend' = rbWriteLen[queueHead]
       /\ bytesToReceive' = rbReadLen[queueHead]
       /\ I2C_sendStart
       /\ startLog' = Append(startLog, <<queueHead, Starter>>)
       /\ calls' = <<"sendStart">>
       /\ startTime' = now
  ELSE /\ UNCHANGED txVars
       /\ calls' = <<>>

\* variant: the block being started is not recorded in currentRequest
startTransaction_NoCurrent ==
  IF queueHead # NULL /\ status = I2C_STATE_FREE
  THEN /\ status' = I2C_STATE_ACTIVE
       /\ rxCount' = 0 /\ txCount' = 0
       /\ currentRequest' = currentRequest
       /\ operation' = rbOperation[queueHead]
       /\ bytesToSend' = rbWriteLen[queueHead]
       /\ bytesToReceive' = rbReadLen[queueHead]
       /\ I2C_sendStart
       /\ startLog' = Append(startLog, <<queueHead, Starter>>)
       /\ calls' = <<"sendStart">>
       /\ startTime' = now
  ELSE /\ UNCHANGED txVars
       /\ calls' = <<>>

\* startTransaction(), lines 63-79: one critical section.
startTransaction ==
  IF queueHead # NULL /\ status = I2C_STATE_FREE
  THEN /\ status' = I2C_STATE_ACTIVE
       /\ rxCount' = 0 /\ txCount' = 0
       /\ currentRequest' = queueHead
       /\ operation' = rbOperation[queueHead]
       /\ bytesToSend' = rbWriteLen[queueHead]
       /\ bytesToReceive' = rbReadLen[queueHead]
       /\ I2C_sendStart
       /\ startLog' = Append(startLog, <<queueHead, Starter>>)
       /\ calls' = <<"sendStart">>
       /\ startTime' = now
  ELSE /\ UNCHANGED txVars
       /\ calls' = <<>>

\* variant: the status of the block is not reset before it is queued
queueRequestInit_KeepStatus(req) ==
  /\ rbStatus' = rbStatus
  /\ rbNext' = [rbNext EXCEPT ![req] = NULL]

\* queueRequest() lines 85-86, before the critical section.
queueRequestInit(req) ==
  /\ rbStatus' = [rbStatus EXCEPT ![req] = I2C_STATUS_PENDING]
  /\ rbNext' = [rbNext EXCEPT ![req] = NULL]

\* variant: the new block is linked in front of the queue
queueRequestLink_AtHead(req) ==
  IF queueTail = NULL
  THEN /\ queueHead' = req /\ queueTail' = req
       /\ UNCHANGED rbNext
  ELSE /\ rbNext' = [rbNext EXCEPT ![req] = queueHead]
       /\ queueHead' = req
       /\ UNCHANGED queueTail

\* variant: the old tail is not linked to the new block
queueRequestLink_NoLink(req) ==
  IF queueTail = NULL
  THEN /\ queueHead' = req /\ queueTail' = req
       /\ UNCHANGED rbNext
  ELSE /\ queueTail' = req
       /\ UNCHANGED <<rbNext, queueHead>>

\* queueRequest() lines 88-93: the enqueue critical section.
queueRequestLink(req) ==
  IF queueTail = NULL
  THEN /\ queueHead' = req /\ queueTail' = req
       /\ UNCHANGED rbNext
  ELSE /\ rbNext' = [rbNext EXCEPT ![queueTail] = req]
       /\ queueTail' = req
       /\ UNCHANGED queueHead

\* variant: the test for a zero timeout is missing
TimedOut_NoZeroCheck(t) ==
  /\ t # NULL
  /\ UGt(USub(currentMicros, startTime), timeout)

\* variant: the clock is compared with a deadline startTime + timeout
UAdd(a, b) ==
  LET lo == a[2] + b[2]
      carry == IF lo >= Half THEN 1 ELSE 0
  IN <<(a[1] + b[1] + carry) % Half, lo % Half>>
TimedOut_AbsoluteDeadline(t) ==
  /\ t # NULL /\ UGt(timeout, U32(0))
  /\ UGt(currentMicros, UAdd(startTime, timeout))

\* the test of checkForTimeout() lines 143-145
TimedOut(t) ==
  /\ t # NULL /\ UGt(timeout, U32(0))
  /\ UGt(USub(currentMicros, startTime), timeout)

\* variant: the adapter is initialised and then closed
checkForTimeoutCS_InitClose ==
  LET t == queueHead IN
  IF TimedOut(t)
  THEN /\ queueHead' = rbNext[t]
       /\ queueTail' = IF rbNext[t] = NULL THEN NULL ELSE queueTail
       /\ currentRequest' = NULL
       /\ rbStatus' = [rbStatus EXCEPT ![t] = I2C_STATUS_TIMEOUT]
       /\ doneLog' = Append(doneLog, <<t, "poll">>)
       /\ hw' = "closed"
       /\ calls' = <<"init", "close">>
       /\ status' = I2C_STATE_FREE
  ELSE /\ UNCHANGED <<queueHead, queueTail, currentRequest, rbStatus, doneLog,
                      hw, status>>
       /\ calls' = <<>>

\* variant: the manager state is not returned to free after a timeout
checkForTimeoutCS_NoFree ==
  LET t == queueHead IN
  IF TimedOut(t)
  THEN /\ queueHead' = rbNext[t]
       /\ queueTail' = IF rbNext[t] = NULL THEN NULL ELSE queueTail
       /\ currentRequest' = NULL
       /\ rbStatus' = [rbStatus EXCEPT ![t] = I2C_STATUS_TIMEOUT]
       /\ doneLog' = Append(doneLog, <<t, "poll">>)
       /\ I2C_closeInit
       /\ UNCHANGED status
  ELSE /\ UNCHANGED <<queueHead, queueTail, currentRequest, rbStatus, doneLog,
                      hw, status>>
       /\ calls' = <<>>

\* variant: the timed-out block is stamped but left on the queue
checkForTimeoutCS_NoDequeue ==
  LET t == queueHead IN
  IF TimedOut(t)
  THEN /\ UNCHANGED <<queueHead, queueTail>>
       /\ currentRequest' = NULL
       /\ rbStatus' = [rbStatus EXCEPT ![t] = I2C_STATUS_TIMEOUT]
       /\ doneLog' = Append(doneLog, <<t, "poll">>)
       /\ I2C_closeInit
       /\ status' = I2C_STATE_FREE
  ELSE /\ UNCHANGED <<queueHead, queueTail, currentRequest, rbStatus, doneLog,
                      hw, status>>
       /\ calls' = <<>>

\* variant: the adapter is reset after the timeout has elapsed even when no
\* block is queued
checkForTimeoutCS_ResetWhenIdle ==
  LET t == queueHead IN
  IF TimedOut(t)
  THEN /\ queueHead' = rbNext[t]
       /\ queueTail' = IF rbNext[t] = NULL THEN NULL ELSE queueTail
       /\ currentRequest' = NULL
       /\ rbStatus' = [rbStatus EXCEPT ![t] = I2C_STATUS_TIMEOUT]
       /\ doneLog' = Append(doneLog, <<t, "poll">>)
       /\ I2C_closeInit
       /\ status' = I2C_STATE_FREE
  ELSE IF t = NULL /\ UGt(timeout, U32(0))
            /\ UGt(USub(currentMicros, startTime), timeout)
  THEN /\ currentRequest' = NULL
       /\ I2C_closeInit
       /\ status' = I2C_STATE_FREE
       /\ UNCHANGED <<queueHead, queueTail, rbStatus, doneLog>>
  ELSE /\ UNCHANGED <<queueHead, queueTail, currentRequest, rbStatus, doneLog,
                      hw, status>>
       /\ calls' = <<>>

\* checkForTimeout() lines 141-159: the critical section.
checkForTimeoutCS ==
  LET t == queueHead IN
  IF TimedOut(t)
  THEN /\ queueHead' = rbNext[t]
       /\ queueTail' = IF rbNext[t] = NULL THEN NULL ELSE queueTail
       /\ currentRequest' = NULL
       /\ rbStatus' = [rbStatus EXCEPT ![t] = I2C_STATUS_TIMEOUT]
       /\ doneLog' = Append(doneLog, <<t, "poll">>)
       /\ I2C_closeInit
       /\ status' = I2C_STATE_FREE
  ELSE /\ UNCHANGED <<queueHead, queueTail, currentRequest, rbStatus, doneLog,
                      hw, status>>
       /\ calls' = <<>>

\* variant: queueTail is not cleared when the last block is removed
isrDequeue_KeepTail ==
  /\ isrT' = queueHead
  /\ IF queueHead # NULL
     THEN /\ queueHead' = rbNext[queueHead]
          /\ UNCHANGED queueTail
     ELSE UNCHANGED <<queueHead, queueTail>>

\* handleInterrupt() lines 188-194: remove the head, under noInterrupts().
isrDequeue ==
  /\ isrT' = queueHead
  /\ IF queueHead # NULL
     THEN /\ queueHead' = rbNext[queueHead]
          /\ queueTail' = IF rbNext[queueHead] = NULL THEN NULL ELSE queueTail
     ELSE UNCHANGED <<queueHead, queueTail>>

\* variant: the status is written before the byte count (the count is still
\* to be written when the status becomes visible)
isrNBytes_Late ==
  rbNBytes' = rbNBytes

\* variant: the byte count is added to the one the block already holds
isrNBytes_Accumulate ==
  rbNBytes' = IF isrT # NULL
              THEN [rbNBytes EXCEPT ![isrT] = rbNBytes[isrT] + rxCount]
              ELSE rbNBytes

\* handleInterrupt() line 196
isrNBytes ==
  rbNBytes' = IF isrT # NULL THEN [rbNBytes EXCEPT ![isrT] = rxCount] ELSE rbNBytes

\* variant: the block is stamped after the state register was reset
isrStamp_AfterFree ==
  IF isrT # NULL
  THEN /\ rbStatus' = [rbStatus EXCEPT ![isrT] = I2C_STATE_FREE]
       /\ doneLog' = Append(doneLog, <<isrT, "isr">>)
  ELSE UNCHANGED <<rbStatus, doneLog>>

\* handleInterrupt() line 197
isrStamp ==
  IF isrT # NULL
  THEN /\ rbStatus' = [rbStatus EXCEPT ![isrT] = status]
       /\ doneLog' = Append(doneLog, <<isrT, "isr">>)
  ELSE UNCHANGED <<rbStatus, doneLog>>

\* variant: the state register is not reset on completion
isrFree_Skip ==
  status' = status

\* handleInterrupt() line 199
isrFree ==
  status' = I2C_STATE_FREE

\* ------------------------------------------------------------------ foreground
\* The foreground runs only while no interrupt handler is executing.
Fg(at) == pc = at /\ isrpc = "none"

\* write(), write_P() or read() is called for block b: req->wait() begins.
Call(op, b) ==
  /\ Fg("idle") /\ Len(enqLog) < MaxSubmits
  /\ pc' = "wait" /\ fgReq' = b /\ fgOp' = op
  /\ calls' = <<>>
  /\ UNCHANGED <<rbVars, qVars, txVars, timeout, clockVars, fgRet, retval, currentMicros,
                 isrVars, enqLog, doneLog>>

\* checkForTimeout() line 140, entered from loop() or from wait()'s loop.
checkForTimeoutEnter(ret) ==
  /\ currentMicros' = now
  /\ pc' = "cft_cs" /\ fgRet' = ret
  /\ calls' = <<>>
  /\ UNCHANGED <<rbVars, qVars, txVars, timeout, clockVars, fgReq, fgOp, retval,
                 isrVars, enqLog, doneLog>>

\* loop(), called from the main loop
Loop ==
  /\ Fg("idle")
  /\ checkForTimeoutEnter("idle")

\* I2CRB::wait(): while (status == PENDING) I2CManager.loop();
WaitLoop ==
  /\ Fg("wait") /\ rbStatus[fgReq] = I2C_STATUS_PENDING
  /\ checkForTimeoutEnter("wait")

\* the lengths a caller passes: one byte written, or one byte read
WriteLens(op) == IF op = "read" THEN {0} ELSE {1}
ReadLens(op) == IF op = "read" THEN {1} ELSE {0}

\* setWriteParams / setRequestParams (and line 116 for write_P)
setParams(op, req, wl, rl) ==
  /\ rbOperation' = [rbOperation EXCEPT ![req] =
        CASE op = "write" -> OPERATION_SEND
          [] op = "write_P" -> OPERATION_SEND_P
          [] OTHER -> OPERATION_REQUEST]
  /\ rbWriteLen' = [rbWriteLen EXCEPT ![req] = wl]
  /\ rbReadLen' = [rbReadLen EXCEPT ![req] = rl]

\* variant: the block is configured without waiting for its previous
\* submission
SetParams_NoWait ==
  /\ Fg("wait")
  /\ \E wl \in WriteLens(fgOp), rl \in ReadLens(fgOp) :
        setParams(fgOp, fgReq, wl, rl)
  /\ pc' = "qr_init"
  /\ calls' = <<>>
  /\ UNCHANGED <<rbStatus, rbNext, rbNBytes, qVars, txVars, timeout, clockVars,
                 fgReq, fgOp, fgRet, retval, currentMicros, isrVars, enqLog,
                 doneLog>>

\* wait() returns; lines 104 / 115-116 / 130 configure the block.
SetParams ==
  /\ Fg("wait") /\ rbStatus[fgReq] # I2C_STATUS_PENDING
  /\ \E wl \in WriteLens(fgOp), rl \in ReadLens(fgOp) :
        setParams(fgOp, fgReq, wl, rl)
  /\ pc' = "qr_init"
  /\ calls' = <<>>
  /\ UNCHANGED <<rbStatus, rbNext, rbNBytes, qVars, txVars, timeout, clockVars,
                 fgReq, fgOp, fgRet, retval, currentMicros, isrVars, enqLog, doneLog>>

QrInit ==
  /\ Fg("qr_init")
  /\ queueRequestInit(fgReq)
  /\ pc' = "qr_cs"
  /\ calls' = <<>>
  /\ UNCHANGED <<rbNBytes, rbOperation, rbWriteLen, rbReadLen, qVars, txVars,
                 timeout, clockVars, fgReq, fgOp, fgRet, retval, currentMicros, isrVars,
                 enqLog, doneLog>>

QrLink ==
  /\ Fg("qr_cs")
  /\ queueRequestLink(fgReq)
  /\ enqLog' = Append(enqLog, fgReq)
  /\ pc' = "qr_start"
  /\ calls' = <<>>
  /\ UNCHANGED <<rbStatus, rbNBytes, rbOperation, rbWriteLen, rbReadLen, txVars,
                 timeout, clockVars, fgReq, fgOp, fgRet, retval, currentMicros, isrVars,
                 doneLog>>

\* queueRequest() line 95, then write/write_P/read return I2C_STATUS_OK.
QrStart ==
  /\ Fg("qr_start")
  /\ startTransaction
  /\ pc' = "idle" /\ fgReq' = NULL /\ fgOp' = "none"
  /\ retval' = I2C_STATUS_OK
  /\ UNCHANGED <<rbVars, qVars, timeout, clockVars, fgRet, currentMicros,
                 isrVars, enqLog, doneLog>>

CftCS ==
  /\ Fg("cft_cs")
  /\ checkForTimeoutCS
  /\ pc' = "cft_start"
  /\ UNCHANGED <<rbNext, rbNBytes, rbOperation, rbWriteLen, rbReadLen,
                 txCount, rxCount, operation, bytesToSend, bytesToReceive,
                 startTime, startLog, timeout, clockVars, fgReq, fgOp, fgRet, retval,
                 currentMicros, isrVars, enqLog>>

\* variant: checkForTimeout returns without calling startTransaction
CftStart_NoStart ==
  /\ Fg("cft_start")
  /\ calls' = <<>>
  /\ pc' = fgRet
  /\ UNCHANGED <<rbVars, qVars, txVars, timeout, clockVars, fgReq, fgOp, fgRet,
                 retval, currentMicros, isrVars, enqLog, doneLog>>

\* checkForTimeout() line 161
CftStart ==
  /\ Fg("cft_start")
  /\ startTransaction
  /\ pc' = fgRet
  /\ UNCHANGED <<rbVars, qVars, timeout, clockVars, fgReq, fgOp, fgRet, retval,
                 currentMicros, isrVars, enqLog, doneLog>>

\* ------------------------------------------------------------------ interrupt
\* variant: the handler goes on to dequeue whatever the adapter reported
IsrEnter_AlwaysComplete ==
  /\ isrpc = "none" /\ hw = "busy"
  /\ I2C_handleInterrupt
  /\ isrpc' = "deq"
  /\ calls' = <<>>
  /\ UNCHANGED <<rbVars, qVars, currentRequest, operation, bytesToSend,
                 bytesToReceive, startTime, startLog, timeout, clockVars,
                 fgVars, isrT, enqLog, doneLog>>

\* The TWI interrupt is taken (the foreground is outside its critical
\* sections at every state): lines 177-185.
IsrEnter ==
  /\ isrpc = "none" /\ hw = "busy"
  /\ I2C_handleInterrupt
  /\ isrpc' = IF status' # I2C_STATUS_PENDING THEN "deq" ELSE "none"
  /\ calls' = <<>>
  /\ UNCHANGED <<rbVars, qVars, currentRequest, operation, bytesToSend,
                 bytesToReceive, startTime, startLog, timeout, clockVars,
                 fgVars, isrT, enqLog, doneLog>>

\* handleInterrupt() is entered while the manager is free: no transaction
\* is on the bus, so the adapter step of line 177 moves nothing and leaves
\* the state register alone; line 185 then compares it with PENDING.
IsrEnterFree ==
  /\ isrpc = "none" /\ status = I2C_STATE_FREE
  /\ isrpc' = IF status # I2C_STATUS_PENDING THEN "deq" ELSE "none"
  /\ calls' = <<>>
  /\ UNCHANGED <<rbVars, qVars, txVars, timeout, clockVars, fgVars, isrT,
                 enqLog, doneLog>>

IsrDequeue ==
  /\ isrpc = "deq"
  /\ isrDequeue
  /\ isrpc' = "nbytes"
  /\ calls' = <<>>
  /\ UNCHANGED <<rbVars, txVars, timeout, clockVars, fgVars, enqLog, doneLog>>

IsrNBytes ==
  /\ isrpc = "nbytes"
  /\ isrNBytes
  /\ isrpc' = "stamp"
  /\ calls' = <<>>
  /\ UNCHANGED <<rbStatus, rbNext, rbOperation, rbWriteLen, rbReadLen, qVars,
                 txVars, timeout, clockVars, fgVars, isrT, enqLog, doneLog>>

IsrStamp ==
  /\ isrpc = "stamp"
  /\ isrStamp
  /\ isrpc' = "free"
  /\ calls' = <<>>
  /\ UNCHANGED <<rbNext, rbNBytes, rbOperation, rbWriteLen, rbReadLen, qVars,
                 txVars, timeout, clockVars, fgVars, isrT, enqLog>>

IsrFree ==
  /\ isrpc = "free"
  /\ isrFree
  /\ isrpc' = "start"
  /\ calls' = <<>>
  /\ UNCHANGED <<rbVars, qVars, currentRequest, txCount, rxCount, operation,
                 bytesToSend, bytesToReceive, startTime, hw, startLog, timeout,
                 clockVars, fgVars, isrT, enqLog, doneLog>>

\* variant: the handler returns without calling startTransaction
IsrStart_NoStart ==
  /\ isrpc = "start"
  /\ calls' = <<>>
  /\ isrpc' = "none" /\ isrT' = NULL
  /\ UNCHANGED <<rbVars, qVars, txVars, timeout, clockVars, fgVars, enqLog,
                 doneLog>>

\* line 202, then the handler returns to the interrupted code
IsrStart ==
  /\ isrpc = "start"
  /\ startTransaction
  /\ isrpc' = "none" /\ isrT' = NULL
  /\ UNCHANGED <<rbVars, qVars, timeout, clockVars, fgVars, enqLog, doneLog>>

\* ------------------------------------------------------------------ clock
\* micros() advances
\* micros() advances. The clock is observed only where micros() is read
\* (lines 76 and 140), so a tick is taken where the next step of the running
\* code reads it: before checkForTimeout is entered, and before a call of
\* startTransaction that will start a transaction.
WillStart == queueHead # NULL /\ status = I2C_STATE_FREE
ClockObserved ==
  IF isrpc # "none" THEN isrpc = "start" /\ WillStart
  ELSE \/ pc = "idle"
       \/ pc = "wait" /\ rbStatus[fgReq] = I2C_STATUS_PENDING
       \/ pc \in {"qr_start", "cft_start"} /\ WillStart

Tick ==
  /\ ticks < MaxTicks /\ ClockObserved
  /\ now' = UInc(now)
  /\ ticks' = ticks + 1
  /\ UNCHANGED <<rbVars, qVars, txVars, timeout, fgVars, isrVars, enqLog,
                 doneLog, calls>>

Ops == {"write", "write_P", "read"}
\* Each block belongs to one client, which issues its own kind of request:
\* block 1 writes from RAM or from flash, even blocks read, the others write.
OpsOf(b) ==
  IF b = 1 THEN {"write", "write_P"}
  ELSE IF b % 2 = 0 THEN {"read"} ELSE {"write"}

Next ==
  \/ \E b \in Blocks : \E op \in OpsOf(b) : Call(op, b)
  \/ Loop
  \/ WaitLoop
  \/ SetParams
  \/ QrInit
  \/ QrLink
  \/ QrStart
  \/ CftCS
  \/ CftStart
  \/ IsrEnter
  \/ IsrDequeue
  \/ IsrNBytes
  \/ IsrStamp
  \/ IsrFree
  \/ IsrStart
  \/ Tick

Spec == Init /\ [][Next]_vars

\* The program when an interrupt can also be delivered to the handler while
\* the manager is free.
NextSpurious ==
  \/ Next
  \/ IsrEnterFree

SpecSpurious == Init /\ [][NextSpurious]_vars

\* The program when loop() is never called and no caller has to wait.
NextNoPoll ==
  \/ \E b \in Blocks : \E op \in OpsOf(b) : Call(op, b)
  \/ SetParams
  \/ QrInit
  \/ QrLink
  \/ QrStart
  \/ IsrEnter
  \/ IsrDequeue
  \/ IsrNBytes
  \/ IsrStamp
  \/ IsrFree
  \/ IsrStart
  \/ Tick

SpecNoPoll == Init /\ [][NextNoPoll]_vars

\* The foreground keeps running (a call in progress continues, the main loop
\* keeps calling loop()), a raised interrupt is served and the handler runs
\* to its end, and the clock keeps advancing.
FgProgress ==
  Loop \/ WaitLoop \/ SetParams \/ QrInit \/ QrLink \/ QrStart \/ CftCS \/ CftStart
IsrProgress ==
  IsrEnter \/ IsrDequeue \/ IsrNBytes \/ IsrStamp \/ IsrFree \/ IsrStart

FairSpec ==
  /\ Spec
  /\ WF_vars(FgProgress)
  /\ WF_vars(IsrProgress)
  /\ SF_vars(Tick)

\* ================================================================== claims
Count(seq, b) == Len(SelectSeq(seq, LAMBDA x : x = b))
DoneBlocks == [i \in 1..Len(doneLog) |-> doneLog[i][1]]
\* the handler has removed block b from the queue and not yet stamped it
HeldByHandler(b) == isrpc \in {"nbytes", "stamp"} /\ isrT = b
\* the elapsed time of the transaction on the bus, by the clock itself
Elapsed == USub(now, startTime)
\* this step is the timeout branch of checkForTimeout
TimeoutStep == Len(doneLog') > Len(doneLog) /\ doneLog'[Len(doneLog')][2] = "poll"

\* C1: blocks reach terminal status in exactly the order in which they were
\* enqueued: the sequence of stamped blocks is a prefix of the sequence of
\* enqueued blocks, in every interleaving of enqueue, interrupt and poll.
C1_FifoCompletion ==
  /\ Len(doneLog) <= Len(enqLog)
  /\ \A i \in 1..Len(doneLog) : doneLog[i][1] = enqLog[i]

\* two blocks were queued together, the first is stamped, the second waits
C1_Witness ==
  /\ enqLog = <<1, 2>> /\ Len(doneLog) = 1
  /\ rbStatus[1] \in Terminal /\ rbStatus[2] = I2C_STATUS_PENDING
  /\ queueHead = 2 /\ isrpc = "none"

\* C2: poll stamps a block with the timeout status only if the time elapsed
\* since that block's own transaction was started exceeds the timeout, in
\* every interleaving of poll with the interrupt handler.
C2_TimeoutOnlyAfterOwnElapsed ==
  [][TimeoutStep => UGt(Elapsed, timeout)]_vars

\* C3: every submission gets exactly one terminal status write: a block is
\* submitted once more than it was stamped exactly while the manager holds it
\* (on the queue, or removed by the handler and about to be stamped), and a
\* block the manager does not hold (and that is not just being enqueued)
\* carries a terminal status.
C3_ExactlyOneStamp ==
  LET q == QueueSeq
      d == DoneBlocks
  IN \A b \in Blocks :
       LET held == (\E i \in 1..Len(q) : q[i] = b) \/ HeldByHandler(b) IN
       /\ Count(enqLog, b) = Count(d, b) + (IF held THEN 1 ELSE 0)
       /\ (~held /\ ~(pc = "qr_cs" /\ fgReq = b)) => rbStatus[b] \in Terminal

\* one block was stamped by the timeout path and one by the completion path
C3_Witness ==
  /\ Len(doneLog) = 2 /\ queueHead = NULL
  /\ \E i, j \in 1..2 : doneLog[i][2] = "poll" /\ doneLog[j][2] = "isr"
  /\ \E b \in Blocks : rbStatus[b] \in BusErrors

\* this step is the critical section of checkForTimeout (lines 141-159)
PollCSStep == pc = "cft_cs" /\ pc' = "cft_start"
\* this step is a call of startTransaction, from any of its three callers
StartStep ==
  \/ pc = "qr_start" /\ pc' = "idle"
  \/ pc = "cft_start" /\ pc' = fgRet /\ isrpc = "none" /\ isrpc' = "none"
  \/ isrpc = "start" /\ isrpc' = "none"
LastStart == startLog[Len(startLog)]

\* C4: when the transaction on the bus has had no completion interrupt and
\* poll finds its elapsed time above a non-zero timeout, that one poll call
\* dequeues it, stamps it with the timeout code, calls close then init in the
\* same critical section, frees the manager and then starts the next queued
\* block; and a later poll times out a transaction that the foreground
\* started only when its own elapsed time exceeds the timeout.
C4_TimeoutRecovery ==
  /\ [][(PollCSStep /\ status = I2C_STATE_ACTIVE /\ queueHead # NULL
           /\ UGt(timeout, U32(0))
           /\ UGt(USub(currentMicros, startTime), timeout))
        => /\ queueHead' = rbNext[queueHead]
           /\ (queueHead' = NULL => queueTail' = NULL)
           /\ rbStatus' = [rbStatus EXCEPT ![queueHead] = I2C_STATUS_TIMEOUT]
           /\ calls' = <<"close", "init">>
           /\ status' = I2C_STATE_FREE
           /\ hw' = "idle"]_vars
  /\ [][(pc = "cft_start" /\ pc' = fgRet /\ isrpc = "none" /\ isrpc' = "none"
           /\ calls = <<"close", "init">> /\ queueHead # NULL)
        => /\ status' = I2C_STATE_ACTIVE
           /\ currentRequest' = queueHead
           /\ calls' = <<"sendStart">>
           /\ startTime' = now]_vars
  /\ [][(TimeoutStep /\ LastStart[2] # "isr") => UGt(Elapsed, timeout)]_vars

\* block 1 timed out and the same poll call started block 2
C4_Witness ==
  /\ rbStatus[1] = I2C_STATUS_TIMEOUT /\ doneLog = <<<<1, "poll">>>>
  /\ startLog = <<<<1, "enqueue">>, <<2, "poll">>>>
  /\ status = I2C_STATE_ACTIVE /\ currentRequest = 2 /\ queueHead = 2
  /\ pc = "idle"

\* this step belongs to a call of loop(): its clock read, its critical
\* section or its call of startTransaction
PollStep ==
  /\ isrpc = "none" /\ isrpc' = "none" /\ pc' # pc
  /\ (pc \in {"cft_cs", "cft_start"} \/ pc' = "cft_cs")

\* C5: with timeout = 0 no poll ever times a transaction out: no block is
\* stamped by poll, and a poll step taken while a transaction is active
\* leaves the block statuses, the queue, the manager state and the adapter
\* alone, whatever the clock says.
C5_ZeroTimeoutNeverFires ==
  /\ [](timeout = U32(0) =>
          /\ \A i \in 1..Len(doneLog) : doneLog[i][2] # "poll"
          /\ \A b \in Blocks : rbStatus[b] # I2C_STATUS_TIMEOUT)
  /\ [][(timeout = U32(0) /\ PollStep /\ status = I2C_STATE_ACTIVE)
        => /\ UNCHANGED <<rbStatus, queueHead, queueTail, status,
                          currentRequest, hw>>
           /\ calls' = <<>>]_vars

\* poll has run its critical section on a wedged transaction after the
\* clock moved, with timeout = 0, and the block is still pending at the head
C5_Witness ==
  /\ timeout = U32(0) /\ hw = "stuck" /\ pc = "cft_start"
  /\ UGt(USub(currentMicros, startTime), U32(1))
  /\ status = I2C_STATE_ACTIVE /\ queueHead = 1
  /\ rbStatus[1] = I2C_STATUS_PENDING

\* C6: without any poll, once every enqueued block has been completed by
\* the interrupt handler and the handler has returned, the queue is empty
\* (head and tail NULL), the manager is free and every enqueued block has a
\* terminal status (a block being submitted again is pending once more).
C6_DrainedByInterrupts ==
  (isrpc = "none" /\ Len(doneLog) = Len(enqLog))
    => /\ queueHead = NULL /\ queueTail = NULL
       /\ status = I2C_STATE_FREE
       /\ \A i \in 1..Len(enqLog) :
            rbStatus[enqLog[i]] \in Terminal
              \/ (pc = "qr_cs" /\ fgReq = enqLog[i])

\* two blocks were queued together and both were completed by interrupts
C6_Witness ==
  /\ enqLog = <<1, 2>> /\ Len(doneLog) = 2
  /\ startLog = <<<<1, "enqueue">>, <<2, "isr">>>>
  /\ isrpc = "none" /\ pc = "idle" /\ queueHead = NULL

\* C7: an enqueue made while a transaction is active does not call
\* send-start, neither in its critical section nor in its call of
\* startTransaction (when that call does start a transaction, the new block
\* is alone on the queue and every earlier block has been stamped); the
\* handler that completes a transaction calls send-start for the new head in
\* its last step, and the foreground does not run before the handler has
\* returned.
C7_ChainedStart ==
  /\ [][(pc \in {"qr_cs", "qr_start"} /\ pc' # pc /\ status = I2C_STATE_ACTIVE)
        => calls' = <<>> /\ startLog' = startLog /\ hw' = hw]_vars
  /\ [][(pc = "qr_start" /\ pc' = "idle" /\ startLog' # startLog)
        => /\ queueHead = fgReq /\ queueTail = fgReq
           /\ Len(enqLog) = Len(doneLog) + 1]_vars
  /\ [][(isrpc = "start" /\ isrpc' = "none" /\ queueHead # NULL)
        => /\ calls' = <<"sendStart">>
           /\ startLog' = Append(startLog, <<queueHead, "isr">>)
           /\ currentRequest' = queueHead]_vars
  /\ [][isrpc # "none" => UNCHANGED fgVars]_vars

\* the second of two queued blocks was started by the interrupt handler
C7_Witness ==
  /\ enqLog = <<1, 2>> /\ startLog = <<<<1, "enqueue">>, <<2, "isr">>>>
  /\ isrpc = "none" /\ calls = <<"sendStart">> /\ currentRequest = 2

\* C8: send-start is called only by startTransaction, only when it finds the
\* manager free, the queue non-empty and the bus idle, and the same step
\* makes the manager active; startTransaction called while the manager is not
\* free, or with an empty queue, changes nothing and calls nothing; the bus is
\* busy only while the manager is active.
C8_OneInFlight ==
  /\ [][(startLog' # startLog)
        => /\ StartStep
           /\ status = I2C_STATE_FREE /\ queueHead # NULL /\ hw = "idle"
           /\ status' = I2C_STATE_ACTIVE /\ currentRequest' = queueHead
           /\ calls' = <<"sendStart">>]_vars
  /\ [][(StartStep /\ (status # I2C_STATE_FREE \/ queueHead = NULL))
        => UNCHANGED <<txVars, qVars>> /\ calls' = <<>>]_vars
  /\ [](hw # "idle" => status = I2C_STATE_ACTIVE)

\* a second block was enqueued while the first is on the bus: one send-start
C8_Witness ==
  /\ Len(enqLog) = 2 /\ Len(startLog) = 1 /\ doneLog = <<>>
  /\ pc = "idle" /\ isrpc = "none" /\ status = I2C_STATE_ACTIVE

\* the peripheral holds the bus and no timeout can end the transaction:
\* the timeout is disabled, or the clock of this behaviour has run out
\* before the transaction's elapsed time exceeded the timeout
Wedged ==
  /\ hw = "stuck"
  /\ \/ timeout = U32(0)
     \/ ticks = MaxTicks /\ ~UGt(Elapsed, timeout)

\* C9: under FairSpec every pending block eventually gets a terminal status,
\* unless the bus is wedged and no timeout can fire.
C9_EventuallyTerminal ==
  \A b \in Blocks :
    (rbStatus[b] = I2C_STATUS_PENDING) ~> (rbStatus[b] \in Terminal \/ Wedged)

\* block 2 was completed after its predecessor timed out
C9_Witness ==
  /\ doneLog = <<<<1, "poll">>, <<2, "isr">>>>
  /\ rbStatus[1] = I2C_STATUS_TIMEOUT /\ rbStatus[2] = I2C_STATUS_OK

\* C10: a bus error reported for the transaction on the bus is written,
\* as reported, to that transaction's block and to no other block; the
\* handler then leaves the manager free, or active on the next queued block;
\* and between foreground operations a queued block never sits behind a
\* manager that is not active.
C10_BusErrorIsolated ==
  /\ [][(isrpc = "stamp" /\ isrpc' = "free" /\ status \in BusErrors)
        => /\ isrT # NULL /\ isrT = currentRequest
           /\ rbStatus' = [rbStatus EXCEPT ![isrT] = status]]_vars
  /\ [][(isrpc # "none" /\ ~(isrpc = "stamp" /\ isrpc' = "free"))
        => rbStatus' = rbStatus]_vars
  /\ [][(isrpc = "start" /\ isrpc' = "none")
        => IF queueHead = NULL
           THEN status' = I2C_STATE_FREE /\ calls' = <<>>
           ELSE status' = I2C_STATE_ACTIVE /\ currentRequest' = queueHead]_vars
  /\ [](isrpc = "none" /\ pc \in {"idle", "wait", "qr_init", "qr_cs", "cft_cs"}
          /\ queueHead # NULL => status = I2C_STATE_ACTIVE)

\* block 1 ended in a bus error and the handler started block 2
C10_Witness ==
  /\ rbStatus[1] \in BusErrors /\ rbStatus[2] = I2C_STATUS_PENDING
  /\ startLog = <<<<1, "enqueue">>, <<2, "isr">>>>
  /\ status = I2C_STATE_ACTIVE /\ currentRequest = 2 /\ isrpc = "none"

\* C11: at every state outside the critical sections (every state of the
\* model: a critical section is one step), queueTail is NULL iff queueHead
\* is NULL, the nextRequest links from queueHead end at queueTail and then at
\* NULL, and no block is on the queue twice.
C11_QueueWellFormed ==
  LET q == QueueSeq IN
  /\ (queueTail = NULL) <=> (queueHead = NULL)
  /\ Len(q) <= NumBlocks
  /\ \A i, j \in 1..Len(q) : q[i] = q[j] => i = j
  /\ queueHead # NULL =>
        /\ q[Len(q)] = queueTail
        /\ rbNext[queueTail] = NULL

\* two blocks were queued together and the first has been removed and stamped
C11_Witness ==
  /\ enqLog = <<1, 2>> /\ Len(doneLog) = 1
  /\ QueueSeq = <<2>> /\ queueTail = 2 /\ rbNext[1] = 2

\* this step writes a terminal status into a block
StampStep == Len(doneLog') > Len(doneLog)
\* the block it is written into: the handler's t, or the head poll found
Stamped == IF isrpc = "stamp" THEN isrT ELSE queueHead

\* C12: every block on the queue has status pending at every state in which
\* the interrupt handler can run; the enqueue critical section links a block
\* whose status is already pending and whose next link is already NULL; and
\* a block that gets its terminal status is off the queue when the step that
\* writes it ends (the handler unlinked it in an earlier step).
C12_QueuedBlocksPending ==
  /\ [](\A b \in Blocks : InQueue(b) => rbStatus[b] = I2C_STATUS_PENDING)
  /\ [][(pc = "qr_cs" /\ pc' = "qr_start")
        => /\ rbStatus[fgReq] = I2C_STATUS_PENDING /\ rbNext[fgReq] = NULL
           /\ ~InQueue(fgReq) /\ InQueue(fgReq)']_vars
  /\ [][StampStep
        => \E b \in Blocks :
             /\ b = Stamped /\ rbStatus[b] = I2C_STATUS_PENDING
             /\ rbStatus'[b] \in Terminal
             /\ ~InQueue(b)'
             /\ (isrpc = "stamp" => ~InQueue(b))]_vars

\* block 1 is resubmitted after it was stamped: it is queued and pending again
C12_Witness ==
  /\ enqLog = <<1, 1>> /\ Len(doneLog) = 1
  /\ QueueSeq = <<1>> /\ rbStatus[1] = I2C_STATUS_PENDING

\* a step that runs with interrupts masked: the interrupt entry up to line
\* 183 (the hardware masks interrupts when it enters the handler), the
\* handler's dequeue (lines 188-194), and the critical sections of
\* queueRequest, checkForTimeout and startTransaction
MaskedStep ==
  \/ isrpc = "none" /\ hw = "busy" /\ pc' = pc /\ ticks' = ticks
  \/ isrpc = "deq" /\ isrpc' = "nbytes"
  \/ StartStep
  \/ PollCSStep
  \/ pc = "qr_cs" /\ pc' = "qr_start"

\* C13: the manager state register is written only by steps that run with
\* interrupts masked.
C13_StateWrittenMasked ==
  [][status' # status => MaskedStep]_vars

\* C14: a block whose status is terminal is not on the queue and is not the
\* block the current-transaction slot points to.
C14_NoReferenceOnceTerminal ==
  \A b \in Blocks :
    rbStatus[b] \in Terminal => ~InQueue(b) /\ currentRequest # b

\* C15: every step of a call of loop() made while the manager is free and
\* the queue is empty (the clock read, the critical section and the call of
\* startTransaction) leaves the queue, the manager state, the current
\* transaction, the scratch counters, the start timestamp, the adapter and
\* every block unchanged and calls no adapter primitive, for either timeout
\* value and any clock value.
C15_IdlePollNoOp ==
  [][(PollStep /\ status = I2C_STATE_FREE /\ queueHead = NULL)
     => /\ UNCHANGED <<qVars, txVars, rbVars, timeout>>
        /\ calls' = <<>>]_vars

\* poll has run on a free manager with an empty queue, with a non-zero
\* timeout and a start timestamp that is older than the timeout
C15_Witness ==
  /\ pc = "idle" /\ isrpc = "none" /\ fgRet = "idle"
  /\ status = I2C_STATE_FREE /\ queueHead = NULL /\ queueTail = NULL
  /\ Len(doneLog) = 1 /\ Len(enqLog) = 1 /\ doneLog[1][2] = "isr"
  /\ UGt(timeout, U32(0))
  /\ UGt(USub(currentMicros, startTime), timeout)
  /\ currentMicros = now

\* the block has been submitted and stamped before
Resubmitted(b) == Count(DoneBlocks, b) >= 1

\* C16: a block that was stamped before is accepted again: enqueue resets
\* its status to pending and its next link to NULL and puts it on the queue;
\* its transaction starts from zeroed counters with the lengths of the new
\* submission; and on completion the handler writes into it the byte count
\* and the status of this transaction, whatever the first one left there.
C16_ReusableOnceTerminal ==
  /\ [][(pc = "qr_init" /\ pc' = "qr_cs" /\ Resubmitted(fgReq))
        => /\ rbStatus[fgReq] \in Terminal
           /\ rbStatus'[fgReq] = I2C_STATUS_PENDING /\ rbNext'[fgReq] = NULL]_vars
  /\ [][(pc = "qr_cs" /\ pc' = "qr_start" /\ Resubmitted(fgReq))
        => /\ queueTail' = fgReq
           /\ enqLog' = Append(enqLog, fgReq)]_vars
  /\ [][(startLog' # startLog /\ Resubmitted(queueHead))
        => /\ txCount' = 0 /\ rxCount' = 0
           /\ bytesToSend' = rbWriteLen[queueHead]
           /\ bytesToReceive' = rbReadLen[queueHead]
           /\ operation' = rbOperation[queueHead]
           /\ currentRequest' = queueHead]_vars
  /\ [][(isrpc = "stamp" /\ isrpc' = "free" /\ Resubmitted(isrT))
        => /\ rbStatus'[isrT] = status /\ status \in Terminal
           /\ rbNBytes'[isrT] = rxCount
           /\ rxCount <= rbReadLen[isrT]]_vars

\* block 2 is read a second time: the first read left one byte in it, the
\* second ended in a bus error with no byte received and is being stamped
C16_Witness ==
  /\ enqLog = <<2, 2>> /\ doneLog = <<<<2, "isr">>>>
  /\ isrpc = "nbytes" /\ isrT = 2
  /\ rbNBytes[2] = 1 /\ rxCount = 0 /\ status \in BusErrors
  /\ rbStatus[2] = I2C_STATUS_PENDING

\* C17: while the manager is active, currentRequest is the queue head and
\* is the block of the last send-start; and the block that the completion
\* path or the timeout path stamps is that block: the one most recently
\* started, whose parameters are in the scratch state.
C17_StampedIsStarted ==
  /\ [](status = I2C_STATE_ACTIVE
          => /\ queueHead # NULL /\ currentRequest = queueHead
             /\ Len(startLog) > 0 /\ LastStart[1] = queueHead)
  /\ [][StampStep
        => /\ Len(startLog) > 0
           /\ Stamped = LastStart[1] /\ Stamped = currentRequest
           /\ doneLog' = Append(doneLog, <<Stamped, doneLog'[Len(doneLog')][2]>>)
           /\ Len(startLog) = Len(doneLog) + 1
           /\ bytesToSend = rbWriteLen[Stamped]
           /\ bytesToReceive = rbReadLen[Stamped]
           /\ operation = rbOperation[Stamped]]_vars

\* block 1 completed, block 2 was started by the handler and then timed out
C17_Witness ==
  /\ doneLog = <<<<1, "isr">>, <<2, "poll">>>>
  /\ startLog[2] = <<2, "isr">>
  /\ rbStatus[2] = I2C_STATUS_TIMEOUT

\* this step is an interrupt in which the adapter moved one byte and left
\* the state register at pending (the transaction is still going on)
OngoingStep ==
  /\ isrpc = "none" /\ hw = "busy" /\ pc' = pc
  /\ status' = I2C_STATUS_PENDING
  /\ (txCount' = txCount + 1 \/ rxCount' = rxCount + 1)

\* C18: an interrupt for which the adapter signals that the transaction is
\* still going on leaves the queue, every block's status and byte count and
\* the manager state unchanged, starts nothing, and the handler returns at
\* once; the handler goes on to dequeue only when the adapter left a
\* finished or error code in the state register.
C18_OngoingStepFrame ==
  /\ [][OngoingStep
        => /\ UNCHANGED <<qVars, rbVars, status, currentRequest, startTime,
                          startLog, doneLog, hw>>
           /\ calls' = <<>>
           /\ isrpc' = "none"]_vars
  /\ [][(isrpc = "none" /\ isrpc' # "none")
        => /\ isrpc' = "deq"
           /\ status' \in {I2C_STATUS_OK} \cup BusErrors
           /\ UNCHANGED <<qVars, rbVars, txCount, rxCount>>]_vars
  /\ [](isrpc \in {"deq", "nbytes", "stamp"}
          => status \in {I2C_STATUS_OK} \cup BusErrors)

\* an interrupt has moved the byte of block 1 and the transaction goes on
C18_Witness ==
  /\ isrpc = "none" /\ hw = "busy" /\ status = I2C_STATE_ACTIVE
  /\ txCount = 1 /\ bytesToSend = 1
  /\ queueHead = 1 /\ rbStatus[1] = I2C_STATUS_PENDING /\ doneLog = <<>>

\* C19: the completion handler runs its steps in the order dequeue, byte
\* count, status, free, start: the byte count is written into the unlinked
\* block while its status is still pending; the status is written while the
\* state register still holds the adapter's code; the register is freed only
\* after the block is terminal; startTransaction is called only after the
\* register is free; and whenever the handler has made the status terminal,
\* the block is off the queue and holds its final byte count.
C19_CompletionOrder ==
  /\ [][(isrpc = "deq" /\ isrpc' # isrpc)
        => /\ isrpc' = "nbytes" /\ isrT' = queueHead
           /\ queueHead' = rbNext[queueHead]
           /\ UNCHANGED <<rbVars, status, startLog>>]_vars
  /\ [][(isrpc = "nbytes" /\ isrpc' # isrpc)
        => /\ isrpc' = "stamp" /\ ~InQueue(isrT)
           /\ rbNBytes' = [rbNBytes EXCEPT ![isrT] = rxCount]
           /\ rbStatus[isrT] = I2C_STATUS_PENDING
           /\ UNCHANGED <<rbStatus, qVars, status, startLog>>]_vars
  /\ [][(isrpc = "stamp" /\ isrpc' # isrpc)
        => /\ isrpc' = "free" /\ ~InQueue(isrT)
           /\ rbNBytes[isrT] = rxCount
           /\ rbStatus' = [rbStatus EXCEPT ![isrT] = status]
           /\ status \in {I2C_STATUS_OK} \cup BusErrors
           /\ UNCHANGED <<rbNBytes, qVars, status, startLog>>]_vars
  /\ [][(isrpc = "free" /\ isrpc' # isrpc)
        => /\ isrpc' = "start" /\ rbStatus[isrT] \in Terminal
           /\ status' = I2C_STATE_FREE
           /\ UNCHANGED <<rbVars, qVars, startLog>>]_vars
  /\ [][(isrpc = "start" /\ isrpc' # isrpc)
        => /\ isrpc' = "none" /\ status = I2C_STATE_FREE
           /\ UNCHANGED <<rbVars, qVars>>]_vars
  /\ [](isrpc \in {"free", "start"}
          => /\ rbStatus[isrT] \in Terminal /\ ~InQueue(isrT)
             /\ rbNBytes[isrT] = rxCount)

\* a read of one byte has completed: the handler has written the byte count
\* and the status, and has not yet freed the manager
C19_Witness ==
  /\ isrpc = "free" /\ isrT = 2 /\ rbStatus[2] = I2C_STATUS_OK
  /\ rbNBytes[2] = 1 /\ rxCount = 1 /\ status = I2C_STATUS_OK
  /\ ~InQueue(2)

\* the operation tag each request-initiating operation leaves in the block
OpTag(op) ==
  CASE op = "write" -> OPERATION_SEND
    [] op = "write_P" -> OPERATION_SEND_P
    [] OTHER -> OPERATION_REQUEST

\* C20: write, write_P and read configure a block only when its status is
\* terminal and it is off the queue; they then set its parameters (write_P
\* tags it send-from-program-memory), then enqueue it; a block's parameters
\* change in no other step; and each call returns the OK code, the only
\* value a call ever returns, whatever the status of the block becomes.
C20_WaitConfigureEnqueue ==
  /\ [][(pc = "wait" /\ pc' = "qr_init")
        => /\ rbStatus[fgReq] \in Terminal /\ ~InQueue(fgReq)
           /\ rbOperation'[fgReq] = OpTag(fgOp)
           /\ rbWriteLen'[fgReq] \in WriteLens(fgOp)
           /\ rbReadLen'[fgReq] \in ReadLens(fgOp)
           /\ UNCHANGED <<rbStatus, rbNext, qVars, enqLog>>]_vars
  /\ [][(rbOperation' # rbOperation \/ rbWriteLen' # rbWriteLen
            \/ rbReadLen' # rbReadLen)
        => pc = "wait" /\ pc' = "qr_init"]_vars
  /\ [][(enqLog' # enqLog)
        => /\ pc = "qr_cs" /\ pc' = "qr_start"
           /\ enqLog' = Append(enqLog, fgReq)
           /\ ~InQueue(fgReq) /\ rbOperation[fgReq] = OpTag(fgOp)]_vars
  /\ [][(pc = "wait" /\ pc' # pc) => pc' \in {"qr_init", "cft_cs"}]_vars
  /\ [][(pc = "qr_init" /\ pc' # pc) => pc' = "qr_cs"]_vars
  /\ [][(pc = "qr_start" /\ pc' # pc)
        => pc' = "idle" /\ retval' = I2C_STATUS_OK]_vars
  /\ [](retval \in {"none", I2C_STATUS_OK})
  /\ [](pc \in {"qr_init", "qr_cs"} => ~InQueue(fgReq))

\* write_P was called for block 1 while its first submission was pending;
\* it waited until poll timed that one out, then enqueued the block again
\* and returned OK; the second submission ended in a bus error
C20_Witness ==
  /\ enqLog = <<1, 1>> /\ Len(doneLog) = 2 /\ doneLog[1] = <<1, "poll">>
  /\ rbOperation[1] = OPERATION_SEND_P
  /\ rbStatus[1] \in BusErrors
  /\ retval = I2C_STATUS_OK /\ pc = "idle"

\* no public operation is in progress: the foreground is between calls and
\* no interrupt handler is running
Quiescent == pc = "idle" /\ isrpc = "none"

\* C21: whenever no public operation is in progress, the manager state is
\* one of free and active, and it is active if and only if the queue is not
\* empty.
C21_ActiveIffQueued ==
  Quiescent =>
    /\ status \in {I2C_STATE_FREE, I2C_STATE_ACTIVE}
    /\ (status = I2C_STATE_ACTIVE) <=> (queueHead # NULL)

\* two blocks were queued together: the first completed and the handler
\* started the second, which timed out; poll left the manager free
C21_Witness ==
  /\ Quiescent /\ doneLog = <<<<1, "isr">>, <<2, "poll">>>>
  /\ startLog = <<<<1, "enqueue">>, <<2, "isr">>>>
  /\ queueHead = NULL /\ status = I2C_STATE_FREE

\* C22: a handler run entered while the manager is free (its steps up to
\* the status write find the state register at free) dequeues no block and
\* writes no block's status or byte count.
C22_FreeInterruptNoOp ==
  [][(isrpc \in {"deq", "nbytes", "stamp"} /\ status = I2C_STATE_FREE)
     => UNCHANGED <<qVars, rbStatus, rbNBytes>>]_vars

\* the ticks of the clock between the start of the transaction on the bus
\* and poll's reading of the clock, counted without wraparound
TrueElapsed == TickOf(currentMicros) - TickOf(startTime)

\* C23: when poll reads the clock after the transaction at the head was
\* started, with a non-zero timeout, its critical section times the
\* transaction out if and only if the number of ticks between the start and
\* the reading is strictly greater than the timeout; the clock of every
\* behaviour wraps from 2^32 - 1 to 0 on its second tick.
C23_TimeoutAcrossWrap ==
  [][(PollCSStep /\ queueHead # NULL /\ timeout = U32(TimeoutMicros)
        /\ TrueElapsed >= 0)
     => (TimeoutStep <=> TrueElapsed > TimeoutMicros)]_vars

\* a transaction started before the clock wrapped was timed out by a poll
\* that read the clock after it wrapped
C23_Witness ==
  /\ pc = "cft_start" /\ Len(doneLog) > 0
  /\ doneLog[Len(doneLog)][2] = "poll"
  /\ startTime[1] = Half - 1 /\ currentMicros[1] = 0
  /\ status = I2C_STATE_FREE /\ calls = <<"close", "init">>

====
